---- MODULE Spec2Model ----
(***************************************************************************)
(* Model of rabidaudio/audiocd: the AudioCD sector stream (audiocd.go) on  *)
(* top of the libcdio bindings (bindings.go).                              *)
(*                                                                         *)
(* Representation.  The disc is a fixed map from byte position to content; *)
(* a byte is identified by its position on the disc (sector * 2352 + i),   *)
(* so two bytes are equal iff they come from the same place.  A byte       *)
(* string (the pending buffer cd.buf, the bytes copied into p) is written  *)
(* as a sequence of runs <<lo, hi>>, each standing for the disc bytes      *)
(* lo .. hi-1 in order; runs are non-empty and adjacent runs are merged,   *)
(* so two byte strings are equal iff their run sequences are equal.        *)
(***************************************************************************)
EXTENDS Integers, Sequences, FiniteSets, TLC

\* ---------------------------------------------------------------- constants
SampleRate == 44100
BitsPerSample == 16
BytesPerSample == BitsPerSample \div 8
Channels == 2
SectorsPerSecond == 75
BytesPerSector == (SampleRate * Channels * BytesPerSample) \div SectorsPerSecond

SeekStart == 0
SeekCurrent == 1
SeekEnd == 2

CDIO_INVALID_TRACK == 255
CDIO_INVALID_LSN == -45301
MaxSpeed == 65535

\* error values
Nil == "nil"
ErrClosed == "ErrClosed"
ErrNoDrive == "ErrNoDrive"
ErrDriver == "AudioCDError"
ErrCompleteSectors == "audiocd: must read complete sectors"
ErrBufferSize == "audiocd: invalid buffer size"
ErrInvalidTrack == "libcdio: CDIO_INVALID_TRACK"
ErrInvalidLSN == "libcdio: CDIO_INVALID_LSN"

\* ------------------------------------------------------------------- bounds
MaxCalls == 4

\* ------------------------------------------------------ Go integer semantics
GoDiv(a, b) == IF a >= 0 THEN a \div b ELSE -((-a) \div b)
GoMod(a, b) == IF a >= 0 THEN a % b ELSE -((-a) % b)
Min(a, b) == IF a < b THEN a ELSE b

\* ------------------------------------------------------------- bytes.Buffer
RECURSIVE BufLen(_)
BufLen(b) ==
    IF b = <<>> THEN 0 ELSE (b[1][2] - b[1][1]) + BufLen(Tail(b))

\* the first n bytes of b (n <= BufLen(b))
RECURSIVE Take(_, _)
Take(b, n) ==
    IF n <= 0 \/ b = <<>> THEN <<>>
    ELSE LET len == b[1][2] - b[1][1] IN
         IF n >= len THEN <<b[1]>> \o Take(Tail(b), n - len)
         ELSE << <<b[1][1], b[1][1] + n>> >>

\* b without its first n bytes
RECURSIVE Drop(_, _)
Drop(b, n) ==
    IF n <= 0 \/ b = <<>> THEN b
    ELSE LET len == b[1][2] - b[1][1] IN
         IF n >= len THEN Drop(Tail(b), n - len)
         ELSE << <<b[1][1] + n, b[1][2]>> >> \o Tail(b)

\* concatenation of two byte strings
Cat(a, b) ==
    IF a = <<>> THEN b
    ELSE IF b = <<>> THEN a
    ELSE IF a[Len(a)][2] = b[1][1]
         THEN SubSeq(a, 1, Len(a) - 1) \o << <<a[Len(a)][1], b[1][2]>> >> \o Tail(b)
         ELSE a \o b

\* the disc bytes lo .. hi-1
Bytes(lo, hi) == IF lo < hi THEN << <<lo, hi>> >> ELSE <<>>

\* Buffer.Next(n): n is clipped to Len(); a negative n slices out of range
BufNext(b, n) ==
    LET m == BufLen(b)
        k == IF n > m THEN m ELSE n
    IN  IF k < 0 THEN [panic |-> TRUE, data |-> <<>>, buf |-> b]
        ELSE [panic |-> FALSE, data |-> Take(b, k), buf |-> Drop(b, k)]

BufWrite(b, data) == Cat(b, data)

\* ------------------------------------------------------------ stream state
\* The fields of AudioCD: cdio is "nil" or "handle"; sbuf is len(cd.sbuf),
\* 0 for the nil slice.
Stream(cdio_, buf_, sbuf_, bufferedOffset_, trueOffset_) ==
    [cdio |-> cdio_, buf |-> buf_, sbuf |-> sbuf_,
     bufferedOffset |-> bufferedOffset_, trueOffset |-> trueOffset_]

ZeroStream == Stream("nil", <<>>, 0, 0, 0)

\* what a call hands back: the stream after it, the returned number, the
\* returned error, the data delivered (bytes, or the track list of TOC), the
\* Device Adapter calls it made in order, and whether it panicked
Result(c, ret_, err_, data_, dev_, panic_) ==
    [cd |-> c, ret |-> ret_, err |-> err_, data |-> data_, dev |-> dev_,
     panic |-> panic_]

DevCall(fn_, start_, nsectors_, bytes_) ==
    [fn |-> fn_, start |-> start_, nsectors |-> nsectors_, bytes |-> bytes_]

IsOpen(c) == c.cdio # "nil"

\* --------------------------------------------------------------- bindings.go
\* The disc in the drive: the first track number and, per track, the start
\* sector and the sector count that libcdio reports.
trackCount(d) == Len(d.lsn)

TrackPosition(d, t1, i) ==
    [TrackNum |-> t1 + i, StartSector |-> d.lsn[i + 1],
     LengthSectors |-> d.count[i + 1]]

\* toc without the test for a zero sector count
toc_noZeroCheck(d, ntracks) ==
    LET t1 == d.first IN
    IF t1 = CDIO_INVALID_TRACK THEN [toc |-> <<>>, err |-> ErrInvalidTrack]
    ELSE IF \E i \in 0 .. ntracks - 1 : d.lsn[i + 1] = CDIO_INVALID_LSN
         THEN [toc |-> <<>>, err |-> ErrInvalidLSN]
         ELSE [toc |-> [i \in 1 .. ntracks |-> TrackPosition(d, t1, i - 1)],
               err |-> Nil]

toc(d, ntracks) ==
    LET t1 == d.first IN
    IF t1 = CDIO_INVALID_TRACK THEN [toc |-> <<>>, err |-> ErrInvalidTrack]
    ELSE IF \E i \in 0 .. ntracks - 1 :
                \/ d.lsn[i + 1] = CDIO_INVALID_LSN
                \/ d.count[i + 1] = 0
         THEN [toc |-> <<>>, err |-> ErrInvalidLSN]
         ELSE [toc |-> [i \in 1 .. ntracks |-> TrackPosition(d, t1, i - 1)],
               err |-> Nil]

\* readAudioSectors: the start sector is taken from cd.trueOffset; devOK is
\* the outcome of cdio_read_audio_sectors.  The quotient is converted to
\* uint32 and then to lsn_t (int32): the round trip is the identity on the
\* 32-bit range, so start is the sector address libcdio receives.
readAudioSectors(c, plen, nsectors, devOK) ==
    LET start == GoDiv(c.trueOffset, BytesPerSector)
        call == <<DevCall("readAudioSectors", start, nsectors, plen)>>
    IN  IF plen # nsectors * BytesPerSector
        THEN [err |-> ErrBufferSize, data |-> <<>>, dev |-> call]
        ELSE IF ~devOK
        THEN [err |-> ErrDriver, data |-> <<>>, dev |-> call]
        ELSE [err |-> Nil,
              data |-> Bytes(start * BytesPerSector, start * BytesPerSector + plen),
              dev |-> call]

\* ---------------------------------------------------------------- audiocd.go
ContainsSector(t, sector) ==
    sector >= t.StartSector /\ sector < (t.StartSector + t.LengthSectors)

TOC(c, d) ==
    IF ~IsOpen(c) THEN [toc |-> <<>>, err |-> ErrClosed, dev |-> <<>>]
    ELSE LET r == toc(d, trackCount(d)) IN
         [toc |-> r.toc, err |-> r.err,
          dev |-> <<DevCall("trackCount", 0, 0, 0), DevCall("toc", 0, 0, 0)>>]

LengthSectors(c, d) ==
    IF ~IsOpen(c) THEN [ret |-> -1, err |-> ErrClosed, dev |-> <<>>, panic |-> FALSE]
    ELSE LET t == TOC(c, d) IN
         IF t.err # Nil
         THEN [ret |-> -1, err |-> t.err, dev |-> t.dev, panic |-> FALSE]
         ELSE IF Len(t.toc) = 0
         THEN [ret |-> -1, err |-> Nil, dev |-> t.dev, panic |-> TRUE]
         ELSE LET last == t.toc[Len(t.toc)] IN
              [ret |-> last.StartSector + last.LengthSectors, err |-> Nil,
               dev |-> t.dev, panic |-> FALSE]

\* readSectors without the whole-sector check
readSectors_noAlignCheck(c, plen, devOK) ==
    IF ~IsOpen(c) THEN [n |-> 0, err |-> ErrClosed, data |-> <<>>, dev |-> <<>>]
    ELSE IF plen = 0 THEN [n |-> 0, err |-> Nil, data |-> <<>>, dev |-> <<>>]
    ELSE LET nsectors == plen \div BytesPerSector
             r == readAudioSectors(c, plen, nsectors, devOK)
         IN  IF r.err # Nil
             THEN [n |-> 0, err |-> r.err, data |-> <<>>, dev |-> r.dev]
             ELSE [n |-> plen, err |-> Nil, data |-> r.data, dev |-> r.dev]

readSectors(c, plen, devOK) ==
    IF ~IsOpen(c) THEN [n |-> 0, err |-> ErrClosed, data |-> <<>>, dev |-> <<>>]
    ELSE IF plen = 0 THEN [n |-> 0, err |-> Nil, data |-> <<>>, dev |-> <<>>]
    ELSE IF plen % BytesPerSector # 0
    THEN [n |-> 0, err |-> ErrCompleteSectors, data |-> <<>>, dev |-> <<>>]
    ELSE LET nsectors == plen \div BytesPerSector
             r == readAudioSectors(c, plen, nsectors, devOK)
         IN  IF r.err # Nil
             THEN [n |-> 0, err |-> r.err, data |-> <<>>, dev |-> r.dev]
             ELSE [n |-> plen, err |-> Nil, data |-> r.data, dev |-> r.dev]

bufferSectors(c, nsectors, devOK) ==
    LET s1 == IF c.sbuf = 0 THEN nsectors * BytesPerSector ELSE c.sbuf
        s2 == IF s1 < nsectors * BytesPerSector THEN nsectors * BytesPerSector ELSE s1
        r == readSectors(c, s2, devOK)
    IN  [cd |-> [c EXCEPT !.sbuf = s2,
                          !.bufferedOffset = c.bufferedOffset + r.n,
                          !.buf = BufWrite(c.buf, Take(r.data, r.n))],
         err |-> r.err, dev |-> r.dev]

RECURSIVE Read(_, _, _)

\* Read that forgets to advance cd.trueOffset by the bytes served from the
\* buffer
Read_noAdvance(c, plen, devOK) ==
    IF plen = 0 THEN Result(c, 0, Nil, <<>>, <<>>, FALSE)
    ELSE IF BufLen(c.buf) > 0
    THEN LET n == Min(plen, BufLen(c.buf))
             nx == BufNext(c.buf, n)
             c1 == [c EXCEPT !.buf = nx.buf]
             rr == Read(c1, plen - n, devOK)
         IN  Result(rr.cd, n + rr.ret, rr.err, Cat(nx.data, rr.data), rr.dev, FALSE)
    ELSE LET nsectors == (plen \div BytesPerSector) + 1
             b == bufferSectors(c, nsectors, devOK)
         IN  IF b.err # Nil
             THEN Result(b.cd, 0, b.err, <<>>, b.dev, FALSE)
             ELSE LET rr == Read(b.cd, plen, devOK) IN
                  Result(rr.cd, rr.ret, rr.err, rr.data, b.dev \o rr.dev, FALSE)

\* Read that reports only the count of the continued read, dropping the
\* bytes already served from the buffer
Read_dropCount(c, plen, devOK) ==
    IF plen = 0 THEN Result(c, 0, Nil, <<>>, <<>>, FALSE)
    ELSE IF BufLen(c.buf) > 0
    THEN LET n == Min(plen, BufLen(c.buf))
             nx == BufNext(c.buf, n)
             c1 == [c EXCEPT !.buf = nx.buf, !.trueOffset = c.trueOffset + n]
             rr == Read(c1, plen - n, devOK)
         IN  Result(rr.cd, rr.ret, rr.err, Cat(nx.data, rr.data), rr.dev, FALSE)
    ELSE LET nsectors == (plen \div BytesPerSector) + 1
             b == bufferSectors(c, nsectors, devOK)
         IN  IF b.err # Nil
             THEN Result(b.cd, 0, b.err, <<>>, b.dev, FALSE)
             ELSE LET rr == Read(b.cd, plen, devOK) IN
                  Result(rr.cd, rr.ret, rr.err, rr.data, b.dev \o rr.dev, FALSE)

Read(c, plen, devOK) ==
    IF plen = 0 THEN Result(c, 0, Nil, <<>>, <<>>, FALSE)
    ELSE IF BufLen(c.buf) > 0
    THEN LET n == Min(plen, BufLen(c.buf))
             nx == BufNext(c.buf, n)
             c1 == [c EXCEPT !.buf = nx.buf, !.trueOffset = c.trueOffset + n]
             rr == Read(c1, plen - n, devOK)
         IN  Result(rr.cd, n + rr.ret, rr.err, Cat(nx.data, rr.data), rr.dev, FALSE)
    ELSE LET nsectors == (plen \div BytesPerSector) + 1
             b == bufferSectors(c, nsectors, devOK)
         IN  IF b.err # Nil
             THEN Result(b.cd, 0, b.err, <<>>, b.dev, FALSE)
             ELSE LET rr == Read(b.cd, plen, devOK) IN
                  Result(rr.cd, rr.ret, rr.err, rr.data, b.dev \o rr.dev, FALSE)

\* Seek without the test for a target equal to the current offset
Seek_noShortcut(c, d, offset, whence, devOK) ==
    IF ~IsOpen(c) THEN Result(c, c.trueOffset, ErrClosed, <<>>, <<>>, FALSE)
    ELSE
    LET l == IF whence = SeekEnd THEN LengthSectors(c, d)
             ELSE [ret |-> 0, err |-> Nil, dev |-> <<>>, panic |-> FALSE]
        newoffset == IF whence = SeekCurrent THEN c.trueOffset + offset
                     ELSE IF whence = SeekEnd THEN l.ret * BytesPerSector + offset
                     ELSE offset
    IN  IF l.panic THEN Result(c, 0, Nil, <<>>, l.dev, TRUE)
        ELSE IF l.err # Nil THEN Result(c, 0, l.err, <<>>, l.dev, FALSE)
        ELSE IF newoffset > c.trueOffset /\ newoffset < c.bufferedOffset
        THEN LET nx == BufNext(c.buf, newoffset - c.trueOffset) IN
             Result([c EXCEPT !.buf = nx.buf, !.trueOffset = newoffset],
                    newoffset, Nil, <<>>, l.dev, FALSE)
        ELSE LET c1 == [c EXCEPT !.buf = <<>>, !.trueOffset = c.bufferedOffset]
                 secoffset == newoffset - GoMod(newoffset, BytesPerSector)
                 b == bufferSectors(c1, 1, devOK)
                 c2 == [b.cd EXCEPT !.trueOffset = b.cd.bufferedOffset]
                 nx == BufNext(c2.buf, newoffset - secoffset)
             IN  IF b.err # Nil
                 THEN Result(c2, c2.trueOffset, b.err, <<>>, l.dev \o b.dev, FALSE)
                 ELSE IF nx.panic
                 THEN Result(c2, 0, Nil, <<>>, l.dev \o b.dev, TRUE)
                 ELSE Result([c2 EXCEPT !.buf = nx.buf, !.trueOffset = newoffset],
                             newoffset, Nil, <<>>, l.dev \o b.dev, FALSE)

\* Seek that resolves SeekCurrent against the end of the buffered region
Seek_currentFromBuffered(c, d, offset, whence, devOK) ==
    IF ~IsOpen(c) THEN Result(c, c.trueOffset, ErrClosed, <<>>, <<>>, FALSE)
    ELSE
    LET l == IF whence = SeekEnd THEN LengthSectors(c, d)
             ELSE [ret |-> 0, err |-> Nil, dev |-> <<>>, panic |-> FALSE]
        newoffset == IF whence = SeekCurrent THEN c.bufferedOffset + offset
                     ELSE IF whence = SeekEnd THEN l.ret * BytesPerSector + offset
                     ELSE offset
    IN  IF l.panic THEN Result(c, 0, Nil, <<>>, l.dev, TRUE)
        ELSE IF l.err # Nil THEN Result(c, 0, l.err, <<>>, l.dev, FALSE)
        ELSE IF newoffset = c.trueOffset
        THEN Result(c, c.trueOffset, Nil, <<>>, l.dev, FALSE)
        ELSE IF newoffset > c.trueOffset /\ newoffset < c.bufferedOffset
        THEN LET nx == BufNext(c.buf, newoffset - c.trueOffset) IN
             Result([c EXCEPT !.buf = nx.buf, !.trueOffset = newoffset],
                    newoffset, Nil, <<>>, l.dev, FALSE)
        ELSE LET c1 == [c EXCEPT !.buf = <<>>, !.trueOffset = c.bufferedOffset]
                 secoffset == newoffset - GoMod(newoffset, BytesPerSector)
                 b == bufferSectors(c1, 1, devOK)
                 c2 == [b.cd EXCEPT !.trueOffset = b.cd.bufferedOffset]
                 nx == BufNext(c2.buf, newoffset - secoffset)
             IN  IF b.err # Nil
                 THEN Result(c2, c2.trueOffset, b.err, <<>>, l.dev \o b.dev, FALSE)
                 ELSE IF nx.panic
                 THEN Result(c2, 0, Nil, <<>>, l.dev \o b.dev, TRUE)
                 ELSE Result([c2 EXCEPT !.buf = nx.buf, !.trueOffset = newoffset],
                             newoffset, Nil, <<>>, l.dev \o b.dev, FALSE)

\* Seek that leaves the cursor where it was when the device read fails
Seek_keepCursorOnError(c, d, offset, whence, devOK) ==
    IF ~IsOpen(c) THEN Result(c, c.trueOffset, ErrClosed, <<>>, <<>>, FALSE)
    ELSE
    LET l == IF whence = SeekEnd THEN LengthSectors(c, d)
             ELSE [ret |-> 0, err |-> Nil, dev |-> <<>>, panic |-> FALSE]
        newoffset == IF whence = SeekCurrent THEN c.trueOffset + offset
                     ELSE IF whence = SeekEnd THEN l.ret * BytesPerSector + offset
                     ELSE offset
    IN  IF l.panic THEN Result(c, 0, Nil, <<>>, l.dev, TRUE)
        ELSE IF l.err # Nil THEN Result(c, 0, l.err, <<>>, l.dev, FALSE)
        ELSE IF newoffset = c.trueOffset
        THEN Result(c, c.trueOffset, Nil, <<>>, l.dev, FALSE)
        ELSE IF newoffset > c.trueOffset /\ newoffset < c.bufferedOffset
        THEN LET nx == BufNext(c.buf, newoffset - c.trueOffset) IN
             Result([c EXCEPT !.buf = nx.buf, !.trueOffset = newoffset],
                    newoffset, Nil, <<>>, l.dev, FALSE)
        ELSE LET c1 == [c EXCEPT !.buf = <<>>, !.trueOffset = c.bufferedOffset]
                 secoffset == newoffset - GoMod(newoffset, BytesPerSector)
                 b == bufferSectors(c1, 1, devOK)
                 c2 == [b.cd EXCEPT !.trueOffset = b.cd.bufferedOffset]
                 nx == BufNext(c2.buf, newoffset - secoffset)
             IN  IF b.err # Nil
                 THEN Result([c2 EXCEPT !.trueOffset = c.trueOffset], c.trueOffset, b.err,
                             <<>>, l.dev \o b.dev, FALSE)
                 ELSE IF nx.panic
                 THEN Result(c2, 0, Nil, <<>>, l.dev \o b.dev, TRUE)
                 ELSE Result([c2 EXCEPT !.buf = nx.buf, !.trueOffset = newoffset],
                             newoffset, Nil, <<>>, l.dev \o b.dev, FALSE)

Seek(c, d, offset, whence, devOK) ==
    IF ~IsOpen(c) THEN Result(c, c.trueOffset, ErrClosed, <<>>, <<>>, FALSE)
    ELSE
    LET l == IF whence = SeekEnd THEN LengthSectors(c, d)
             ELSE [ret |-> 0, err |-> Nil, dev |-> <<>>, panic |-> FALSE]
        newoffset == IF whence = SeekCurrent THEN c.trueOffset + offset
                     ELSE IF whence = SeekEnd THEN l.ret * BytesPerSector + offset
                     ELSE offset
    IN  IF l.panic THEN Result(c, 0, Nil, <<>>, l.dev, TRUE)
        ELSE IF l.err # Nil THEN Result(c, 0, l.err, <<>>, l.dev, FALSE)
        ELSE IF newoffset = c.trueOffset
        THEN Result(c, c.trueOffset, Nil, <<>>, l.dev, FALSE)
        ELSE IF newoffset > c.trueOffset /\ newoffset < c.bufferedOffset
        THEN LET nx == BufNext(c.buf, newoffset - c.trueOffset) IN
             Result([c EXCEPT !.buf = nx.buf, !.trueOffset = newoffset],
                    newoffset, Nil, <<>>, l.dev, FALSE)
        ELSE LET c1 == [c EXCEPT !.buf = <<>>, !.trueOffset = c.bufferedOffset]
                 secoffset == newoffset - GoMod(newoffset, BytesPerSector)
                 b == bufferSectors(c1, 1, devOK)
                 c2 == [b.cd EXCEPT !.trueOffset = b.cd.bufferedOffset]
                 nx == BufNext(c2.buf, newoffset - secoffset)
             IN  IF b.err # Nil
                 THEN Result(c2, c2.trueOffset, b.err, <<>>, l.dev \o b.dev, FALSE)
                 ELSE IF nx.panic
                 THEN Result(c2, 0, Nil, <<>>, l.dev \o b.dev, TRUE)
                 ELSE Result([c2 EXCEPT !.buf = nx.buf, !.trueOffset = newoffset],
                             newoffset, Nil, <<>>, l.dev \o b.dev, FALSE)

SeekToSector(c, d, sector, devOK) ==
    Seek(c, d, sector * BytesPerSector, SeekStart, devOK)

setSpeed(x, speedOK) == IF speedOK THEN Nil ELSE ErrDriver

SetSpeed(c, x, speedOK) ==
    IF ~IsOpen(c) THEN Result(c, 0, ErrClosed, <<>>, <<>>, FALSE)
    ELSE LET x1 == IF x = -1 THEN MaxSpeed ELSE x IN
         Result(c, 0, setSpeed(x1, speedOK), <<>>,
                <<DevCall("setSpeed", x1, 0, 0)>>, FALSE)

\* openDrive: driveOK is whether cdio_open returns a session
openDrive(c, driveOK) ==
    IF ~driveOK THEN [cd |-> c, err |-> ErrNoDrive]
    ELSE [cd |-> [c EXCEPT !.cdio = "handle"], err |-> Nil]

\* Open without the test for a stream that is already open
Open_noIdempotent(c, driveOK, speedOK) ==
    LET o == openDrive(c, driveOK)
        call == <<DevCall("openDrive", 0, 0, 0)>>
    IN  IF o.err # Nil THEN Result(o.cd, 0, o.err, <<>>, call, FALSE)
        ELSE LET s == SetSpeed(o.cd, -1, speedOK) IN
             IF s.err # Nil
             THEN Result(s.cd, 0, s.err, <<>>, call \o s.dev, FALSE)
             ELSE Result([s.cd EXCEPT !.buf = <<>>, !.bufferedOffset = 0,
                                      !.trueOffset = 0],
                         0, Nil, <<>>, call \o s.dev, FALSE)

Open(c, driveOK, speedOK) ==
    IF IsOpen(c) THEN Result(c, 0, Nil, <<>>, <<>>, FALSE)
    ELSE LET o == openDrive(c, driveOK)
             call == <<DevCall("openDrive", 0, 0, 0)>>
         IN  IF o.err # Nil THEN Result(o.cd, 0, o.err, <<>>, call, FALSE)
             ELSE LET s == SetSpeed(o.cd, -1, speedOK) IN
                  IF s.err # Nil
                  THEN Result(s.cd, 0, s.err, <<>>, call \o s.dev, FALSE)
                  ELSE Result([s.cd EXCEPT !.buf = <<>>, !.bufferedOffset = 0,
                                           !.trueOffset = 0],
                              0, Nil, <<>>, call \o s.dev, FALSE)

\* Close that keeps the pending buffer
Close_noTruncate(c) ==
    Result([c EXCEPT !.cdio = "nil"], 0, Nil, <<>>,
           IF IsOpen(c) THEN <<DevCall("closeDrive", 0, 0, 0)>> ELSE <<>>, FALSE)

Close(c) ==
    Result([c EXCEPT !.cdio = "nil", !.buf = <<>>], 0, Nil, <<>>,
           IF IsOpen(c) THEN <<DevCall("closeDrive", 0, 0, 0)>> ELSE <<>>, FALSE)

\* ejectMedia: ejectOK is whether cdio_eject_media reports success; a nil
\* session is refused by libcdio.  On success the session is gone and the
\* binding clears cd.cdio; on failure cd.cdio is left as it was.
ejectMedia(c, ejectOK) ==
    IF ~IsOpen(c) \/ ~ejectOK THEN [cd |-> c, err |-> ErrDriver]
    ELSE [cd |-> [c EXCEPT !.cdio = "nil"], err |-> Nil]

EjectMedia(c, ejectOK) ==
    LET e == ejectMedia(c, ejectOK)
        call == <<DevCall("ejectMedia", 0, 0, 0)>>
    IN  IF e.err # Nil THEN Result(e.cd, 0, e.err, <<>>, call, FALSE)
        ELSE LET cl == Close(e.cd) IN
             Result(cl.cd, 0, cl.err, <<>>, call \o cl.dev, FALSE)

TrackCount(c, d) == IF ~IsOpen(c) THEN -1 ELSE trackCount(d)

\* ------------------------------------------------------------------ inputs
ReadLens == {0, 5, 1176, 2352, 8232}
SeekOffsets == {-2352, -5, 0, 5, 2352, 7056}
Whences == {SeekStart, SeekCurrent, SeekEnd}
Sectors == {0, 1, 3}
Speeds == {-1, 4}
DirectLens == {0, 100, 2352}

\* a two-track audio disc of four sectors, a disc whose first-track marker is
\* invalid, and a disc that reports no tracks
DiscAudio == [first |-> 1, lsn |-> <<0, 2>>, count |-> <<2, 2>>]
DiscNoFirst == [first |-> CDIO_INVALID_TRACK, lsn |-> <<0, 2>>, count |-> <<2, 2>>]
DiscBlank == [first |-> 1, lsn |-> <<>>, count |-> <<>>]
Discs == {DiscAudio, DiscNoFirst, DiscBlank}

\* discs for the table of contents: one whose second track has no valid start
\* sector, one whose second track reports zero sectors, a disc of 250 sectors
\* in two tracks, and a disc whose first track is number 3
DiscBadLSN == [first |-> 1, lsn |-> <<0, CDIO_INVALID_LSN>>, count |-> <<2, 2>>]
DiscZeroCount == [first |-> 1, lsn |-> <<0, 2>>, count |-> <<2, 0>>]
DiscTwoTrack == [first |-> 1, lsn |-> <<0, 100>>, count |-> <<100, 150>>]
DiscFromThree == [first |-> 3, lsn |-> <<0, 2, 3>>, count |-> <<2, 1, 4>>]
TOCDiscs == Discs \cup {DiscBadLSN, DiscZeroCount, DiscTwoTrack, DiscFromThree}

\* -------------------------------------------------------------------- state
VARIABLES
    cdio,            \* cd.cdio: "nil" or "handle"
    buf,             \* cd.buf: the unread pending bytes
    sbuf,            \* len(cd.sbuf)
    bufferedOffset,  \* cd.bufferedOffset
    trueOffset,      \* cd.trueOffset
    disc,            \* the disc in the drive
    panicked,        \* the last call panicked; the program is over
    lastCall,        \* the last call: its name, arguments and what it returned
    ncalls,          \* number of calls made so far
    phase,           \* "reads": a session-acquiring Open succeeded and only Reads
                     \* followed; "seeks": Reads and Seeks followed; else "other"
    got,             \* in phase "reads": all bytes the Reads returned, in order
    ripStart,        \* the sector of a SeekToSector that succeeded and was followed
                     \* only by successful one-sector Reads; -1 otherwise
    ripData          \* the bytes those Reads returned, in order

vars == <<cdio, buf, sbuf, bufferedOffset, trueOffset, disc, panicked,
          lastCall, ncalls, phase, got, ripStart, ripData>>

cd == Stream(cdio, buf, sbuf, bufferedOffset, trueOffset)

\* the record of a call: at is cd.trueOffset when the call was made
Call(op_, a1_, a2_, r) ==
    [op |-> op_, a1 |-> a1_, a2 |-> a2_, at |-> trueOffset, ret |-> r.ret,
     err |-> r.err, data |-> r.data, dev |-> r.dev]

NoCall == [op |-> "none", a1 |-> 0, a2 |-> 0, at |-> 0, ret |-> 0, err |-> Nil,
           data |-> <<>>, dev |-> <<>>]

Init ==
    /\ cdio = ZeroStream.cdio
    /\ buf = ZeroStream.buf
    /\ sbuf = ZeroStream.sbuf
    /\ bufferedOffset = ZeroStream.bufferedOffset
    /\ trueOffset = ZeroStream.trueOffset
    /\ disc \in Discs
    /\ panicked = FALSE
    /\ lastCall = NoCall
    /\ ncalls = 0
    /\ phase = "other"
    /\ got = <<>>
    /\ ripStart = -1
    /\ ripData = <<>>

CanCall == ~panicked /\ ncalls < MaxCalls

NoRip == ripStart' = -1 /\ ripData' = <<>>

\* the stream fields, the panic flag and the call record after a call
Apply(op_, a1_, a2_, r) ==
    /\ cdio' = r.cd.cdio
    /\ buf' = r.cd.buf
    /\ sbuf' = r.cd.sbuf
    /\ bufferedOffset' = r.cd.bufferedOffset
    /\ trueOffset' = r.cd.trueOffset
    /\ panicked' = r.panic
    /\ lastCall' = Call(op_, a1_, a2_, r)
    /\ ncalls' = ncalls + 1
    /\ disc' = disc

\* a1 is 1 when cdio_open finds a drive, a2 is 1 when cdio_set_speed succeeds
OpenCall ==
    /\ CanCall
    /\ \E driveOK \in BOOLEAN, speedOK \in BOOLEAN :
         LET r == Open(cd, driveOK, speedOK) IN
         /\ Apply("Open", IF driveOK THEN 1 ELSE 0, IF speedOK THEN 1 ELSE 0, r)
         /\ IF ~IsOpen(cd) /\ r.err = Nil
            THEN phase' = "reads" /\ got' = <<>>
            ELSE IF IsOpen(cd) THEN UNCHANGED <<phase, got>>
            ELSE phase' = "other" /\ got' = <<>>
    /\ NoRip

CloseCall ==
    /\ CanCall
    /\ Apply("Close", 0, 0, Close(cd))
    /\ phase' = "other" /\ got' = <<>>
    /\ NoRip

\* a1 is 1 when the hardware eject succeeds, 0 when it fails
EjectMediaCall ==
    /\ CanCall
    /\ \E ejectOK \in BOOLEAN :
         Apply("EjectMedia", IF ejectOK THEN 1 ELSE 0, 0, EjectMedia(cd, ejectOK))
    /\ phase' = "other" /\ got' = <<>>
    /\ NoRip

ReadCall ==
    /\ CanCall
    /\ \E n \in ReadLens, devOK \in BOOLEAN :
         LET r == Read(cd, n, devOK) IN
         /\ Apply("Read", n, 0, r)
         /\ phase' = phase
         /\ got' = IF phase = "reads" THEN Cat(got, r.data) ELSE <<>>
         /\ IF ripStart >= 0 /\ n = BytesPerSector /\ r.err = Nil
            THEN ripStart' = ripStart /\ ripData' = Cat(ripData, r.data)
            ELSE NoRip

SeekCall ==
    /\ CanCall
    /\ \E offset \in SeekOffsets, whence \in Whences, devOK \in BOOLEAN :
         /\ Apply("Seek", offset, whence, Seek(cd, disc, offset, whence, devOK))
         /\ phase' = IF phase = "other" THEN "other" ELSE "seeks"
         /\ got' = <<>>
         /\ NoRip

SeekToSectorCall ==
    /\ CanCall
    /\ \E sector \in Sectors, devOK \in BOOLEAN :
         LET r == SeekToSector(cd, disc, sector, devOK) IN
         /\ Apply("SeekToSector", sector, 0, r)
         /\ phase' = IF phase = "other" THEN "other" ELSE "seeks"
         /\ got' = <<>>
         /\ IF IsOpen(cd) /\ r.err = Nil /\ ~r.panic
            THEN ripStart' = sector /\ ripData' = <<>>
            ELSE NoRip

TOCCall ==
    /\ CanCall
    /\ LET t == TOC(cd, disc) IN
       Apply("TOC", 0, 0, Result(cd, Len(t.toc), t.err, t.toc, t.dev, FALSE))
    /\ phase' = "other" /\ got' = <<>>
    /\ NoRip

LengthSectorsCall ==
    /\ CanCall
    /\ LET l == LengthSectors(cd, disc) IN
       Apply("LengthSectors", 0, 0, Result(cd, l.ret, l.err, <<>>, l.dev, l.panic))
    /\ phase' = "other" /\ got' = <<>>
    /\ NoRip

TrackCountCall ==
    /\ CanCall
    /\ Apply("TrackCount", 0, 0,
             Result(cd, TrackCount(cd, disc), Nil, <<>>,
                    IF IsOpen(cd) THEN <<DevCall("trackCount", 0, 0, 0)>> ELSE <<>>,
                    FALSE))
    /\ phase' = "other" /\ got' = <<>>
    /\ NoRip

SetSpeedCall ==
    /\ CanCall
    /\ \E x \in Speeds, speedOK \in BOOLEAN :
         Apply("SetSpeed", x, 0, SetSpeed(cd, x, speedOK))
    /\ phase' = "other" /\ got' = <<>>
    /\ NoRip

\* a direct call of the unexported readSectors with a buffer of plen bytes
readSectorsCall ==
    /\ CanCall
    /\ \E plen \in DirectLens, devOK \in BOOLEAN :
         LET r == readSectors(cd, plen, devOK) IN
         Apply("readSectors", plen, 0, Result(cd, r.n, r.err, r.data, r.dev, FALSE))
    /\ phase' = "other" /\ got' = <<>>
    /\ NoRip

Next ==
    \/ OpenCall
    \/ CloseCall
    \/ EjectMediaCall
    \/ ReadCall
    \/ SeekCall
    \/ SeekToSectorCall
    \/ TOCCall
    \/ LengthSectorsCall
    \/ SetSpeedCall
    \/ readSectorsCall

Spec == Init /\ [][Next]_vars

\* The table of contents on its own: every kind of disc, and only the calls
\* that open, close and query the disc.
InitTOC ==
    /\ cdio = ZeroStream.cdio
    /\ buf = ZeroStream.buf
    /\ sbuf = ZeroStream.sbuf
    /\ bufferedOffset = ZeroStream.bufferedOffset
    /\ trueOffset = ZeroStream.trueOffset
    /\ disc \in TOCDiscs
    /\ panicked = FALSE
    /\ lastCall = NoCall
    /\ ncalls = 0
    /\ phase = "other"
    /\ got = <<>>
    /\ ripStart = -1
    /\ ripData = <<>>

NextTOC ==
    \/ OpenCall
    \/ CloseCall
    \/ TOCCall
    \/ LengthSectorsCall
    \/ TrackCountCall

SpecTOC == InitTOC /\ [][NextTOC]_vars

TypeOK ==
    /\ cdio \in {"nil", "handle"}
    /\ sbuf \in Nat
    /\ bufferedOffset \in Int
    /\ trueOffset \in Int
    /\ ncalls \in 0 .. MaxCalls
    /\ phase \in {"reads", "seeks", "other"}

\* ------------------------------------------------------- claim vocabulary
\* the disc has a table of contents from which LengthSectors computes a length
HasLength(d) == toc(d, trackCount(d)).err = Nil /\ trackCount(d) > 0

FreshStream == Stream("handle", <<>>, 0, 0, 0)

MediaSectors(d) == LengthSectors(FreshStream, d).ret
MediaBytes(d) == MediaSectors(d) * BytesPerSector

\* the calls of the read primitive among the Device Adapter calls dev
ReadCalls(dev) == SelectSeq(dev, LAMBDA x : x.fn = "readAudioSectors")

\* the least number of whole sectors that covers n bytes
CeilSectors(n) == (n + BytesPerSector - 1) \div BytesPerSector

\* the absolute offset that Seek(offset, whence) asks for in the current state
Target(offset, whence) ==
    IF whence = SeekCurrent THEN trueOffset + offset
    ELSE IF whence = SeekEnd THEN MediaBytes(disc) + offset
    ELSE offset

\* Seek(offset, whence) has a target in the current state
Resolves(whence) == whence = SeekEnd => HasLength(disc)

\* what a fresh Open, a read of o discarded bytes and a Read of n bytes return
FreshSkipRead(o, n) == Read(Read(FreshStream, o, TRUE).cd, n, TRUE).data

\* ------------------------------------------------------------------ claims
\* C1  Seek consistency: on an open stream, Seek(o, SeekStart) with
\* 0 <= o < LengthSectors()*BytesPerSector followed by Read(p) returns the disc
\* bytes o .. o+len(p)-1, the bytes a fresh Open, a discarded read of o bytes
\* and Read(p) return.  Stated for the streams that a successful Open opened
\* and that only Read and Seek calls have moved since.
C1_SeekConsistency ==
    [][(/\ cdio = "handle" /\ phase # "other"
        /\ lastCall.op = "Seek" /\ lastCall.a2 = SeekStart /\ lastCall.err = Nil
        /\ HasLength(disc)
        /\ 0 <= lastCall.a1 /\ lastCall.a1 < MediaBytes(disc)
        /\ lastCall'.op = "Read" /\ lastCall'.err = Nil)
       => /\ lastCall'.data = Bytes(lastCall.a1, lastCall.a1 + lastCall'.a1)
          /\ lastCall'.data = FreshSkipRead(lastCall.a1, lastCall'.a1)]_vars

\* C2  Chunking invariance: after an Open that acquired the session, whatever
\* the sizes of the Read calls that follow from offset 0, the bytes they
\* returned, concatenated, are the bytes a single Read of the total length
\* returns: the disc bytes 0 .. L-1 in order.
C2_ChunkingInvariance ==
    phase = "reads" =>
        LET L == BufLen(got) IN
        /\ got = Bytes(0, L)
        /\ got = Read(FreshStream, L, TRUE).data

\* three Reads after Open, a sub-sector one, a multi-sector one and a
\* half-sector one, all served
C2_Witness ==
    /\ phase = "reads" /\ ncalls = 4
    /\ lastCall.op = "Read" /\ lastCall.err = Nil
    /\ BufLen(got) = 5 + 8232 + 1176
    /\ lastCall.a1 = 1176

\* C3  Buffer/offset invariant: in every state reached by Open followed by
\* Read and Seek calls, bufferedOffset >= trueOffset and their difference is
\* the number of unread bytes in the pending buffer (stated for the states
\* whose cursor is not before the start of the disc).
C3_BufferOffsetInvariant ==
    (phase # "other" /\ ~panicked /\ trueOffset >= 0) =>
        /\ bufferedOffset >= trueOffset
        /\ bufferedOffset - trueOffset = BufLen(buf)

\* C4  Sector alignment: every call of the read primitive asks for a positive
\* whole number of sectors, and a request to readSectors that is not sized in
\* whole sectors is rejected without a device call.
C4_SectorAlignment ==
    /\ \A i \in 1 .. Len(lastCall.dev) :
          lastCall.dev[i].fn = "readAudioSectors" =>
              /\ lastCall.dev[i].bytes > 0
              /\ lastCall.dev[i].bytes % BytesPerSector = 0
              /\ lastCall.dev[i].bytes = lastCall.dev[i].nsectors * BytesPerSector
    /\ (lastCall.op = "readSectors" /\ lastCall.a1 % BytesPerSector # 0) =>
          /\ lastCall.dev = <<>>
          /\ lastCall.err \in {ErrCompleteSectors, ErrClosed}
          /\ lastCall.ret = 0

\* a Read of three and a half sectors that went to the device
C4_Witness ==
    /\ lastCall.op = "Read" /\ lastCall.a1 = 8232
    /\ Len(lastCall.dev) = 1
    /\ lastCall.dev[1].fn = "readAudioSectors"
    /\ lastCall.dev[1].bytes = 4 * BytesPerSector

\* C5  Read outcome: a Read(p) on an open stream returns len(p) and no error,
\* or the device error and the number n < len(p) of bytes it had copied from
\* the buffer before the device read failed; trueOffset advances by exactly
\* the returned count.
C5_ReadOutcome ==
    [][(cdio = "handle" /\ lastCall'.op = "Read") =>
          LET len == lastCall'.a1
              n == lastCall'.ret
          IN  /\ trueOffset' = trueOffset + n
              /\ BufLen(lastCall'.data) = n
              /\ ~panicked'
              /\ \/ n = len /\ lastCall'.err = Nil
                 \/ /\ lastCall'.err = ErrDriver
                    /\ n < len
                    /\ n = BufLen(buf)
                    /\ lastCall'.data = buf
                    /\ Len(ReadCalls(lastCall'.dev)) = 1]_vars

\* a Read that failed at the device after serving part of the request
C5_Witness ==
    /\ cdio = "handle"
    /\ lastCall.op = "Read" /\ lastCall.err = ErrDriver
    /\ lastCall.ret > 0 /\ lastCall.ret < lastCall.a1
    /\ trueOffset = lastCall.at + lastCall.ret

\* C6  Minimal whole-sector refill: a Read of n > 0 bytes issued with an empty
\* pending buffer asks the device for exactly the least number of whole
\* sectors covering n bytes, returns n bytes and leaves the over-read
\* remainder in the buffer, whatever Read and Seek calls came before since
\* the successful Open.
C6_MinimalRefill ==
    [][(/\ cdio = "handle" /\ phase # "other" /\ buf = <<>>
        /\ lastCall'.op = "Read" /\ lastCall'.a1 > 0 /\ lastCall'.err = Nil)
       => LET n == lastCall'.a1
              k == CeilSectors(n)
              reads == ReadCalls(lastCall'.dev)
          IN  /\ Len(reads) = 1
              /\ reads[1].nsectors = k
              /\ reads[1].bytes = k * BytesPerSector
              /\ lastCall'.ret = n
              /\ BufLen(buf') = k * BytesPerSector - n]_vars

\* C7  Ripping from a sector: SeekToSector(s) followed by k one-sector Reads,
\* s+k within the disc, returns the contents of sectors s .. s+k-1 in order
\* (on a stream that a successful Open opened and only Read and Seek calls
\* have moved since).
C7_RipFromSector ==
    (ripStart >= 0 /\ phase # "other" /\ HasLength(disc)) =>
        LET k == BufLen(ripData) \div BytesPerSector IN
        (ripStart + k <= MediaSectors(disc)) =>
            ripData = Bytes(ripStart * BytesPerSector,
                            (ripStart + k) * BytesPerSector)

\* C8  Seek no-op: on an open stream a Seek whose target is the current
\* offset returns that offset and no error, makes no device read, and leaves
\* the buffer and both offsets as they were.
C8_SeekNoOp ==
    [][(/\ cdio = "handle"
        /\ lastCall'.op = "Seek"
        /\ Resolves(lastCall'.a2)
        /\ Target(lastCall'.a1, lastCall'.a2) = trueOffset)
       => /\ lastCall'.ret = trueOffset
          /\ lastCall'.err = Nil
          /\ ReadCalls(lastCall'.dev) = <<>>
          /\ ~panicked'
          /\ UNCHANGED <<cdio, buf, sbuf, bufferedOffset, trueOffset>>]_vars

\* Seek(currentOffset, SeekStart) in the middle of a buffered sector
C8_Witness ==
    /\ cdio = "handle"
    /\ lastCall.op = "Seek" /\ lastCall.a2 = SeekStart
    /\ lastCall.a1 = lastCall.at /\ lastCall.at > 0
    /\ trueOffset = lastCall.at
    /\ BufLen(buf) > 0
    /\ lastCall.err = Nil

\* C9  Sub-sector seek after a sector seek: after a Seek that went to the
\* device and landed on o, a Seek to o' with
\* o < o' < floor(o/BytesPerSector)*BytesPerSector + BytesPerSector lands on
\* o' without a device read (Seek(5, SeekCurrent) after
\* Seek(2352*3, SeekStart) returns 2352*3+5 from the buffer).  Stated for the
\* streams that a successful Open opened and that only Read and Seek calls
\* have moved since.
C9_SubSectorSeek ==
    [][(/\ cdio = "handle" /\ phase # "other"
        /\ lastCall.op = "Seek" /\ lastCall.err = Nil
        /\ ReadCalls(lastCall.dev) # <<>>
        /\ lastCall.ret = trueOffset /\ trueOffset >= 0
        /\ lastCall'.op = "Seek"
        /\ Resolves(lastCall'.a2)
        /\ trueOffset < Target(lastCall'.a1, lastCall'.a2)
        /\ Target(lastCall'.a1, lastCall'.a2)
              < (trueOffset \div BytesPerSector) * BytesPerSector + BytesPerSector)
       => /\ lastCall'.ret = Target(lastCall'.a1, lastCall'.a2)
          /\ lastCall'.err = Nil
          /\ trueOffset' = Target(lastCall'.a1, lastCall'.a2)
          /\ ReadCalls(lastCall'.dev) = <<>>]_vars

\* C10  Not-open precondition: without a device session TOC, LengthSectors,
\* SetSpeed, Seek and Read of a non-empty buffer return the not-open error,
\* call nothing in the Device Adapter and leave buffer and offsets alone; the
\* stream gets a session, and data becomes readable, only by a successful
\* Open.
NotOpenRejected ==
    (/\ cdio = "nil"
     /\ \/ lastCall'.op \in {"TOC", "LengthSectors", "SetSpeed", "Seek"}
        \/ lastCall'.op = "Read" /\ lastCall'.a1 > 0)
    => /\ lastCall'.err = ErrClosed
       /\ lastCall'.dev = <<>>
       /\ lastCall'.data = <<>>
       /\ UNCHANGED <<cdio, buf, bufferedOffset, trueOffset>>

ReadableOnlyAfterOpen ==
    (cdio = "nil" /\ cdio' # "nil") =>
        (lastCall'.op = "Open" /\ lastCall'.err = Nil)

C10_NotOpen == [][NotOpenRejected /\ ReadableOnlyAfterOpen]_vars

\* C11  Open is idempotent: Open on a stream that is already open returns no
\* error, calls nothing in the Device Adapter (no second session) and leaves
\* the buffer and both offsets as they were.
C11_OpenIdempotent ==
    [][(cdio = "handle" /\ lastCall'.op = "Open")
       => /\ lastCall'.err = Nil
          /\ lastCall'.dev = <<>>
          /\ ~panicked'
          /\ UNCHANGED <<cdio, buf, sbuf, bufferedOffset, trueOffset>>]_vars

\* an Open in the middle of a buffered sector
C11_Witness ==
    /\ cdio = "handle"
    /\ lastCall.op = "Open" /\ lastCall.dev = <<>> /\ lastCall.err = Nil
    /\ lastCall.at > 0 /\ trueOffset = lastCall.at
    /\ BufLen(buf) > 0

\* C12  Open post-state: whenever a call takes the stream from not open to
\* open, the pending buffer is empty and trueOffset = bufferedOffset = 0; with
\* no usable drive Open fails with the no-drive error.
C12_OpenPostState ==
    [][/\ (cdio = "nil" /\ cdio' # "nil")
          => (buf' = <<>> /\ trueOffset' = 0 /\ bufferedOffset' = 0)
       /\ (cdio = "nil" /\ lastCall'.op = "Open" /\ lastCall'.a1 = 0)
          => (lastCall'.err = ErrNoDrive /\ cdio' = "nil")]_vars

\* C13  Close is idempotent and total: Close always returns success and leaves
\* the stream not open with an empty buffer; it releases the session exactly
\* once when one is held, and on a closed stream it calls nothing and changes
\* nothing.
C13_CloseIdempotent ==
    [][(lastCall'.op = "Close")
       => /\ lastCall'.err = Nil
          /\ ~panicked'
          /\ cdio' = "nil"
          /\ buf' = <<>>
          /\ (cdio # "nil") => lastCall'.dev = <<DevCall("closeDrive", 0, 0, 0)>>
          /\ (cdio = "nil") =>
                /\ lastCall'.dev = <<>>
                /\ UNCHANGED <<cdio, buf, sbuf, bufferedOffset, trueOffset>>]_vars

\* a Close that released the session of a stream read part of the way into a
\* sector
C13_Witness ==
    /\ lastCall.op = "Close"
    /\ lastCall.dev = <<DevCall("closeDrive", 0, 0, 0)>>
    /\ lastCall.at = 5 /\ bufferedOffset > lastCall.at
    /\ cdio = "nil" /\ buf = <<>>

\* C14  Close resets all offsets: after Close trueOffset = 0 and
\* bufferedOffset = 0, so bufferedOffset - trueOffset is the number of pending
\* bytes in the closed state too, and a Seek on the closed stream reports 0.
C14_CloseResetsOffsets ==
    /\ (lastCall.op = "Close") =>
          /\ trueOffset = 0
          /\ bufferedOffset = 0
          /\ bufferedOffset - trueOffset = BufLen(buf)
    /\ (cdio = "nil" /\ lastCall.op = "Seek") => lastCall.ret = 0

\* C15  EjectMedia always closes: after EjectMedia, whether the hardware
\* eject succeeded or failed, the stream is not open and the buffer is
\* discarded; a failed eject still returns its error.
C15_EjectAlwaysCloses ==
    (lastCall.op = "EjectMedia") =>
        /\ cdio = "nil"
        /\ buf = <<>>
        /\ (lastCall.a1 = 0) => lastCall.err = ErrDriver

\* the device reports a table of contents the code must refuse
BadTOC(d) ==
    \/ d.first = CDIO_INVALID_TRACK
    \/ \E i \in 1 .. Len(d.lsn) : d.lsn[i] = CDIO_INVALID_LSN \/ d.count[i] = 0

\* C16  TOC shape and validation: on an open stream TOC returns either a list
\* of exactly TrackCount() entries whose entry i carries track number
\* firstTrack + i, or an error and no list; it returns an error and no list
\* when the first-track marker is invalid, a start sector is invalid or a
\* sector count is zero.
C16_TOCShape ==
    (cdio = "handle" /\ lastCall.op = "TOC") =>
        /\ lastCall.err # Nil => lastCall.data = <<>>
        /\ lastCall.err = Nil =>
              /\ Len(lastCall.data) = TrackCount(cd, disc)
              /\ \A i \in 0 .. Len(lastCall.data) - 1 :
                    lastCall.data[i + 1].TrackNum = disc.first + i
        /\ BadTOC(disc) => (lastCall.err # Nil /\ lastCall.data = <<>>)

\* a TOC of three tracks that starts at track number 3
C16_Witness ==
    /\ cdio = "handle" /\ lastCall.op = "TOC" /\ lastCall.err = Nil
    /\ Len(lastCall.data) = 3
    /\ lastCall.data[3].TrackNum = 5

\* C17  LengthSectors: on an open stream, when the TOC fetch succeeds (zero
\* tracks included) LengthSectors returns normally, and for a non-empty TOC
\* its value is the last track's StartSector + LengthSectors; when the TOC
\* fetch fails it returns that error and no length.
C17_LengthSectors ==
    (cdio = "handle" /\ lastCall.op = "LengthSectors") =>
        LET t == toc(disc, trackCount(disc)) IN
        /\ t.err = Nil =>
              /\ ~panicked
              /\ lastCall.err = Nil
              /\ Len(t.toc) > 0 =>
                    lastCall.ret = t.toc[Len(t.toc)].StartSector
                                   + t.toc[Len(t.toc)].LengthSectors
        /\ t.err # Nil => (lastCall.err = t.err /\ lastCall.ret = -1 /\ ~panicked)

\* C19  Read supports only complete sectors: a Read on an open stream with a
\* buffer whose length is not a whole multiple of BytesPerSector returns an
\* error (stated for the streams that a successful Open opened and that only
\* Read and Seek calls have moved since).
C19_CompleteSectorsOnly ==
    [][(/\ cdio = "handle" /\ phase # "other"
        /\ lastCall'.op = "Read"
        /\ lastCall'.a1 % BytesPerSector # 0)
       => lastCall'.err # Nil]_vars

\* C20  Seek target resolution: on an open stream a Seek that returns no
\* error returns newoffset and leaves trueOffset = newoffset, where newoffset
\* is offset for SeekStart, trueOffset + offset for SeekCurrent and
\* LengthSectors()*BytesPerSector + offset for SeekEnd; for SeekEnd a failing
\* LengthSectors makes Seek return that error with buffer and offsets
\* unchanged.
C20_SeekTarget ==
    [][(cdio = "handle" /\ lastCall'.op = "Seek" /\ ~panicked') =>
          LET offset == lastCall'.a1
              whence == lastCall'.a2
              l == LengthSectors(cd, disc)
          IN  /\ lastCall'.err = Nil =>
                    /\ Resolves(whence)
                    /\ lastCall'.ret = Target(offset, whence)
                    /\ trueOffset' = Target(offset, whence)
              /\ (whence = SeekEnd /\ l.err # Nil) =>
                    /\ lastCall'.err = l.err
                    /\ UNCHANGED <<cdio, buf, sbuf, bufferedOffset, trueOffset>>]_vars

\* a Seek to one sector before the end of the disc, made from the middle of
\* a buffered sector
C20_Witness ==
    /\ cdio = "handle" /\ HasLength(disc)
    /\ lastCall.op = "Seek" /\ lastCall.a2 = SeekEnd /\ lastCall.a1 = -2352
    /\ lastCall.err = Nil
    /\ lastCall.at = 5
    /\ lastCall.ret = MediaBytes(disc) - 2352
    /\ trueOffset = lastCall.ret

\* C21  Seek fast path: on an open stream a Seek whose target lies strictly
\* between trueOffset and bufferedOffset makes no device read, removes
\* exactly newoffset - trueOffset bytes from the front of the pending buffer,
\* sets trueOffset to newoffset and leaves bufferedOffset unchanged, so the
\* next byte read is the disc byte at newoffset (stated for the streams that
\* a successful Open opened and that only Read and Seek calls have moved
\* since, with the cursor not before the start of the disc).
C21_SeekFastPath ==
    [][(/\ cdio = "handle" /\ phase # "other" /\ trueOffset >= 0
        /\ lastCall'.op = "Seek"
        /\ Resolves(lastCall'.a2)
        /\ trueOffset < Target(lastCall'.a1, lastCall'.a2)
        /\ Target(lastCall'.a1, lastCall'.a2) < bufferedOffset)
       => LET newoffset == Target(lastCall'.a1, lastCall'.a2) IN
          /\ lastCall'.err = Nil
          /\ ~panicked'
          /\ ReadCalls(lastCall'.dev) = <<>>
          /\ BufLen(buf') = BufLen(buf) - (newoffset - trueOffset)
          /\ buf' = Drop(buf, newoffset - trueOffset)
          /\ trueOffset' = newoffset
          /\ bufferedOffset' = bufferedOffset
          /\ buf' # <<>> /\ buf'[1][1] = newoffset]_vars

\* the bytes that the device reads of a call delivered
RECURSIVE DevBytes(_)
DevBytes(reads) ==
    IF reads = <<>> THEN 0 ELSE reads[1].bytes + DevBytes(Tail(reads))

\* C22  Exact refill size: every bufferSectors(n) asks the device for exactly
\* n*BytesPerSector bytes whatever the size of earlier refills (Read refills
\* with n = remaining/BytesPerSector + 1, Seek with n = 1), bufferedOffset
\* advances by exactly the bytes appended to the pending buffer, and a
\* slow-path Seek costs at most one sector read.
C22_ExactRefill ==
    [][(cdio = "handle" /\ phase # "other" /\ ~panicked') =>
          LET reads == ReadCalls(lastCall'.dev) IN
          /\ (lastCall'.op = "Seek") =>
                /\ Len(reads) <= 1
                /\ \A i \in 1 .. Len(reads) :
                      reads[i].nsectors = 1 /\ reads[i].bytes = BytesPerSector
          /\ (lastCall'.op = "Read" /\ reads # <<>>) =>
                LET n == ((lastCall'.a1 - BufLen(buf)) \div BytesPerSector) + 1 IN
                /\ Len(reads) = 1
                /\ reads[1].nsectors = n
                /\ reads[1].bytes = n * BytesPerSector
          /\ (lastCall'.op \in {"Seek", "Read"}) =>
                bufferedOffset' - bufferedOffset
                    = IF lastCall'.err = Nil THEN DevBytes(reads) ELSE 0]_vars

\* C23  Seek failure consistency: when the device read inside a slow-path
\* Seek fails, Seek returns that error, the stream is still open with an
\* empty pending buffer and trueOffset = bufferedOffset, the buffered offset
\* from before the call, which is also the offset returned; a Read that
\* follows and succeeds delivers the disc bytes from that offset on.
C23_SeekFailure ==
    [][/\ (/\ cdio = "handle" /\ lastCall'.op = "Seek"
           /\ lastCall'.err # Nil /\ ReadCalls(lastCall'.dev) # <<>>)
          => /\ lastCall'.err = ErrDriver
             /\ ~panicked'
             /\ cdio' = "handle"
             /\ buf' = <<>>
             /\ bufferedOffset' = bufferedOffset
             /\ trueOffset' = bufferedOffset'
             /\ lastCall'.ret = trueOffset'
       /\ (/\ cdio = "handle" /\ lastCall.op = "Seek"
           /\ lastCall.err # Nil /\ ReadCalls(lastCall.dev) # <<>>
           /\ lastCall'.op = "Read" /\ lastCall'.err = Nil)
          => /\ lastCall'.ret = lastCall'.a1
             /\ lastCall'.data = Bytes(lastCall.ret, lastCall.ret + lastCall'.a1)
             /\ trueOffset' = lastCall.ret + lastCall'.a1]_vars

\* a Seek from the middle of a buffered sector whose device read failed
C23_Witness ==
    /\ cdio = "handle"
    /\ lastCall.op = "Seek" /\ lastCall.err = ErrDriver
    /\ ReadCalls(lastCall.dev) # <<>>
    /\ lastCall.at = 5
    /\ buf = <<>> /\ trueOffset = 2352 /\ bufferedOffset = 2352
    /\ lastCall.ret = 2352

\* C24  Failed Open leaves the stream closed: whenever Open returns an error
\* (no drive, or the read speed could not be set) the stream is not open and
\* holds no session afterwards, so an Open that follows goes to the Device
\* Adapter again instead of returning at once.
C24_FailedOpenClosed ==
    [][/\ (lastCall'.op = "Open" /\ lastCall'.err # Nil) => cdio' = "nil"
       /\ (lastCall.op = "Open" /\ lastCall.err # Nil /\ lastCall'.op = "Open")
          => lastCall'.dev # <<>>]_vars

\* C25  Seek stays on the media: a Seek whose resolved target is negative or
\* greater than LengthSectors()*BytesPerSector returns an error and does not
\* panic, and in every state 0 <= trueOffset <= LengthSectors()*BytesPerSector
\* (stated for discs that have a length and for the streams that a successful
\* Open opened and that only Read and Seek calls have moved since).
C25_SeekOnMedia ==
    [][/\ (/\ cdio = "handle" /\ phase # "other" /\ HasLength(disc)
           /\ lastCall'.op = "Seek"
           /\ \/ Target(lastCall'.a1, lastCall'.a2) < 0
              \/ Target(lastCall'.a1, lastCall'.a2) > MediaBytes(disc))
          => (lastCall'.err # Nil /\ ~panicked')
       /\ (cdio' = "handle" /\ phase' = "seeks" /\ HasLength(disc))
          => (0 <= trueOffset' /\ trueOffset' <= MediaBytes(disc))]_vars

\* C26  No device request past the disc end: when the Reads made since Open
\* ask only for bytes within [0, LengthSectors()*BytesPerSector), every
\* device read covers only sectors below LengthSectors(), so a device that
\* fails reads reaching past the last sector fails none of them.
C26_NoReadPastEnd ==
    [][(/\ cdio = "handle" /\ phase = "reads" /\ HasLength(disc)
        /\ lastCall'.op = "Read"
        /\ trueOffset + lastCall'.a1 <= MediaBytes(disc))
       => \A i \in 1 .. Len(lastCall'.dev) :
             lastCall'.dev[i].fn = "readAudioSectors" =>
                 /\ lastCall'.dev[i].start >= 0
                 /\ lastCall'.dev[i].start + lastCall'.dev[i].nsectors
                       <= MediaSectors(disc)]_vars

====
